---------------------------- MODULE Spec2Model ----------------------------
(***************************************************************************)
(* State-machine model of the CRM front-end dialogs:                       *)
(*   - MeetingModal    (src/unnamed/part_001)                              *)
(*   - SendEmailModal  (src/src/components/SendEmailModal.tsx, 1..194)     *)
(*   - Settings        (src/src/components/SendEmailModal.tsx, 196..392)   *)
(*   - BulkActionsBar  (src/unnamed/part_000)                              *)
(*                                                                         *)
(* A React component is modelled by its props and its useState cells.  A   *)
(* handler is one atomic action up to its first await; the continuation    *)
(* after an await is a separate action that consumes the pending request.  *)
(* A useEffect is part of the action that changes one of its dependencies  *)
(* (React runs it before the next event is dispatched).                    *)
(*                                                                         *)
(* Conventions:                                                            *)
(*   - an optional value (null / undefined) is a sequence of length <= 1:  *)
(*     <<>> is null, <<v>> is v;                                           *)
(*   - a timestamp string is a sequence of chunks: <<>> is "", <<h>> is    *)
(*     the 16-character "YYYY-MM-DDTHH:mm" prefix of hour h, <<h, s>> is   *)
(*     the full ISO string with its seconds/zone suffix s;                 *)
(*   - a text that is pattern-matched is a sequence of 1-character         *)
(*     strings.                                                            *)
(***************************************************************************)
EXTENDS Integers, Sequences, FiniteSets, Bags, TLC

VARIABLES
    \* ---- MeetingModal: props
    open,                   \* prop `open`
    meeting,                \* prop `meeting` (optional)
    \* ---- MeetingModal: useState cells
    loading,
    creatingTeamsMeeting,
    leads,
    contacts,
    formData,
    \* ---- MeetingModal: environment
    net,                    \* bag of the requests awaiting their response
    openedWith,             \* was a meeting supplied when the dialog opened
    edits,                  \* field edits made since the dialog opened
    ev,                     \* the last handler step: its name and side effects
    \* ---- SendEmailModal: props
    sendOpen,               \* prop `open`
    contact,                \* prop `contact` (optional)
    \* ---- SendEmailModal: useState cells
    templates,
    selectedTemplate,
    subject,
    body,
    \* ---- SendEmailModal: environment
    sendNet,                \* number of template fetches awaiting their response
    sendLeftover,           \* did the previous session leave a selection, subject or body
    sendEv,                 \* the last handler step: its name and side effects
    \* ---- replaceVariables, applied as a pure function
    text,
    contactData,
    result,
    \* ---- Settings
    activeTab,              \* useState cell
    userRole,               \* useUserRole().userRole ("" while it is not resolved)
    settingsEv,             \* the last step: its name and the item clicked
    \* ---- BulkActionsBar
    selectedCount,          \* prop `selectedCount`
    bulkEv                  \* the last step: its name and the callbacks invoked

meetingVars == <<open, meeting, loading, creatingTeamsMeeting, leads, contacts,
                 formData, net, openedWith, edits, ev>>
sendVars    == <<sendOpen, contact, templates, selectedTemplate, subject, body,
                 sendNet, sendLeftover, sendEv>>
substVars   == <<text, contactData, result>>
settingsVars == <<activeTab, userRole, settingsEv>>
bulkVars    == <<selectedCount, bulkEv>>
vars        == <<meetingVars, sendVars, substVars, settingsVars, bulkVars>>

-----------------------------------------------------------------------------
(* Bounds of the model *)

MaxInFlight == 3    \* requests of a dialog awaiting their response at one time
MaxEdits    == 1    \* field edits by the user per dialog session
MaxFragments == 2   \* fragments a template text is put together from
MaxSelected == 30   \* the largest selection count passed to the bulk actions bar

-----------------------------------------------------------------------------
(* Generic helpers *)

Null == <<>>

\* `s || null` on a string
OrNull(s) == IF s = "" THEN Null ELSE <<s>>

\* `o || ""` on an optional string
OrEmpty(o) == IF o = Null THEN "" ELSE o[1]

Range(s) == {s[i] : i \in 1..Len(s)}

Count(s, x) == Cardinality({i \in 1..Len(s) : s[i] = x})

One(x) == SetToBag({x})

-----------------------------------------------------------------------------
(* MeetingModal: data *)

\* rows of the `leads` table, ordered by lead_name (email is optional: "" when absent)
LeadsTable ==
    << [id |-> "L1", lead_name |-> "Ada", email |-> "ada@x.io"],
       [id |-> "L2", lead_name |-> "Bob", email |-> ""] >>

\* rows of the `contacts` table, ordered by contact_name
ContactsTable ==
    << [id |-> "C1", contact_name |-> "Cy", email |-> "cy@y.io"],
       [id |-> "C2", contact_name |-> "Di", email |-> ""] >>

\* values of the `meeting` prop the parent may supply
Meetings ==
    { [id |-> "m1", subject |-> "Kickoff", description |-> <<"agenda">>,
       start_time |-> <<10, 30>>, end_time |-> <<11, 30>>,
       join_url |-> <<"https://teams/old">>,
       lead_id |-> <<"L1">>, contact_id |-> <<"C2">>, status |-> "scheduled"] }

MeetingProps == {Null} \cup {<<m>> : m \in Meetings}

\* the hour of `new Date()` when the dialog opens in Create mode
NowHours == {8}

\* what the user may type or pick
Subjects     == {"", "Sync"}
Descriptions == {"", "notes"}
TimeInputs   == {<<>>, <<16>>}
TypedUrls    == {"", "https://typed"}
Statuses     == {"scheduled", "cancelled"}

\* join URLs the remote function may return
RemoteUrls == {"https://teams/new"}

\* useAuth().user?.id
UserId == <<"u1">>

NoEv == [op |-> "init", fx |-> <<>>, call |-> Null, req |-> Null, resp |-> Null]

Ev(op, fx, call, req, resp) ==
    [op |-> op, fx |-> fx, call |-> call, req |-> req, resp |-> resp]

-----------------------------------------------------------------------------
(* MeetingModal: pure helpers *)

\* `t ? t.slice(0, 16) : ""` on a timestamp
Slice16(t) == IF Len(t) = 0 THEN <<>> ELSE SubSeq(t, 1, 1)

\* formData seeded from the supplied record
SeedFromMeeting(m) ==
    [subject     |-> m.subject,
     description |-> OrEmpty(m.description),
     start_time  |-> Slice16(m.start_time),
     end_time    |-> Slice16(m.end_time),
     join_url    |-> OrEmpty(m.join_url),
     lead_id     |-> OrEmpty(m.lead_id),
     contact_id  |-> OrEmpty(m.contact_id),
     status      |-> IF m.status = "" THEN "scheduled" ELSE m.status]

\* formData defaults in Create mode: start at the next full hour, end one hour later
SeedDefault(nowHour) ==
    [subject     |-> "",
     description |-> "",
     start_time  |-> <<nowHour + 1>>,
     end_time    |-> <<nowHour + 2>>,
     join_url    |-> "",
     lead_id     |-> "",
     contact_id  |-> "",
     status      |-> "scheduled"]

InitialFormData ==
    [subject |-> "", description |-> "", start_time |-> <<>>, end_time |-> <<>>,
     join_url |-> "", lead_id |-> "", contact_id |-> "", status |-> "scheduled"]

\* faulty variant: the end time is not checked
TeamsMissingFieldsNoEnd(f) == f.subject = "" \/ f.start_time = <<>>

\* createTeamsMeeting: `!formData.subject || !formData.start_time || !formData.end_time`
TeamsMissingFields(f) == f.subject = "" \/ f.start_time = <<>> \/ f.end_time = <<>>

\* faulty variant: only the subject is checked
SubmitMissingFieldsSubjectOnly(f) == f.subject = ""

\* handleSubmit: `!formData.subject || !formData.start_time || !formData.end_time`
SubmitMissingFields(f) == f.subject = "" \/ f.start_time = <<>> \/ f.end_time = <<>>

\* `list.find(x => x.id === id)`: the first match, or undefined
Find(list, id) ==
    LET hits == {i \in 1..Len(list) : list[i].id = id}
    IN  IF hits = {} THEN Null
        ELSE <<list[CHOOSE i \in hits : \A j \in hits : i <= j]>>

\* the attendee pushed for the selected lead, if any
LeadAttendee(f, ls) ==
    IF f.lead_id = "" THEN <<>>
    ELSE LET lead == Find(ls, f.lead_id)
         IN  IF lead # Null /\ lead[1].email # ""
             THEN << [email |-> lead[1].email, name |-> lead[1].lead_name] >>
             ELSE <<>>

\* the attendee pushed for the selected contact, if any
ContactAttendee(f, cs) ==
    IF f.contact_id = "" THEN <<>>
    ELSE LET c == Find(cs, f.contact_id)
         IN  IF c # Null /\ c[1].email # ""
             THEN << [email |-> c[1].email, name |-> c[1].contact_name] >>
             ELSE <<>>

Attendees(f, ls, cs) == LeadAttendee(f, ls) \o ContactAttendee(f, cs)

\* body of the 'create-teams-meeting' invocation
InvokeBody(f, ls, cs) ==
    [subject   |-> f.subject,
     attendees |-> Attendees(f, ls, cs),
     startTime |-> f.start_time,
     endTime   |-> f.end_time]

\* the row written by handleSubmit
MeetingData(f) ==
    [subject     |-> f.subject,
     description |-> OrNull(f.description),
     start_time  |-> f.start_time,
     end_time    |-> f.end_time,
     join_url    |-> OrNull(f.join_url),
     lead_id     |-> OrNull(f.lead_id),
     contact_id  |-> OrNull(f.contact_id),
     status      |-> f.status,
     created_by  |-> UserId]

\* faulty variant: the record is ignored
SaveModeAlwaysInsert(m) == "insert"

\* `if (meeting) update else insert`
SaveMode(m) == IF m # Null THEN "update" ELSE "insert"

-----------------------------------------------------------------------------
(* MeetingModal: requests and responses *)

\* a pending request: what the continuation holds in its closure, and (bookkeeping)
\* whether the dialog was opened again after the request was issued
Request(kind, mode) == [kind |-> kind, mode |-> mode, stale |-> FALSE]

\* (only the continuations of createTeamsMeeting and handleSubmit touch the form or the
\* dialog, so only their requests are tracked)
Stale(r) == IF r.kind = "fetch" THEN r ELSE [r EXCEPT !.stale = TRUE]
Fresh(r) == [r EXCEPT !.stale = FALSE]

CountOf(b, r) == IF r \in DOMAIN b THEN b[r] ELSE 0

\* the pending requests once the dialog is opened again
AllStale(b) ==
    [r \in {Stale(x) : x \in DOMAIN b} |->
        IF r.stale THEN CountOf(b, r) + CountOf(b, Fresh(r)) ELSE CountOf(b, r)]

\* what 'create-teams-meeting' may answer: an error, or data with or without a join URL
TeamsResponses ==
    {[error |-> TRUE, joinUrl |-> ""]}
        \cup {[error |-> FALSE, joinUrl |-> u] : u \in RemoteUrls \cup {""}}

\* what the insert / update may answer
SaveResponses == {[error |-> TRUE], [error |-> FALSE]}

\* what Promise.all of the two selects may yield: each `data` present or null, or a rejection
FetchResponses ==
    {[rejected |-> TRUE, leadsData |-> FALSE, contactsData |-> FALSE]}
        \cup {[rejected |-> FALSE, leadsData |-> l, contactsData |-> c] : l, c \in BOOLEAN}

\* faulty variant: the whole form is written, the status going back to its default
FormAfterTeamsResponseResetStatus(f, r) ==
    IF ~r.error /\ r.joinUrl # ""
    THEN [f EXCEPT !.join_url = r.joinUrl, !.status = "scheduled"]
    ELSE f

\* faulty variant: a link already in the form is kept
FormAfterTeamsResponseKeepExisting(f, r) ==
    IF ~r.error /\ r.joinUrl # "" /\ f.join_url = "" THEN [f EXCEPT !.join_url = r.joinUrl] ELSE f

\* formData after the continuation of createTeamsMeeting (functional update on the latest state)
FormAfterTeamsResponse(f, r) ==
    IF ~r.error /\ r.joinUrl # "" THEN [f EXCEPT !.join_url = r.joinUrl] ELSE f

\* side effects of the continuation of createTeamsMeeting
TeamsResponseFx(r) ==
    IF r.error THEN <<"console.error", "toast:Error">>
    ELSE IF r.joinUrl # "" THEN <<"toast:Teams Meeting Created">>
    ELSE <<>>

\* faulty variant: the refresh callback runs whatever the outcome
SaveResponseFxAlwaysRefresh(r, mode) ==
    IF r.error THEN <<"console.error", "toast:Error", "onSuccess">>
    ELSE << IF mode = "update" THEN "toast:Meeting updated successfully"
                               ELSE "toast:Meeting created successfully",
            "onSuccess", "onOpenChange(false)" >>

\* side effects of the continuation of handleSubmit, in order
SaveResponseFx(r, mode) ==
    IF r.error THEN <<"console.error", "toast:Error">>
    ELSE << IF mode = "update" THEN "toast:Meeting updated successfully"
                               ELSE "toast:Meeting created successfully",
            "onSuccess", "onOpenChange(false)" >>

\* the `open` prop after the continuation of handleSubmit: the parent follows onOpenChange
OpenAfterSaveResponse(o, r) == IF r.error THEN o ELSE FALSE

\* faulty variant: the flag is cleared on the success path only
LoadingAfterSaveResponseOnSuccess(l, r) == IF r.error THEN l ELSE FALSE

\* `loading` after the continuation of handleSubmit: `finally { setLoading(false) }`
LoadingAfterSaveResponse(l, r) == FALSE

-----------------------------------------------------------------------------
(* MeetingModal: actions *)

\* useEffect on [open, meeting], for open = true: the seeded formData
EffectFormData(m, nowHour) ==
    IF m # Null THEN SeedFromMeeting(m[1]) ELSE SeedDefault(nowHour)

\* the parent opens the dialog, with or without a record; the effect runs
OpenDialog(m, nowHour) ==
    /\ ~open
    /\ BagCardinality(net) < MaxInFlight
    /\ open' = TRUE
    /\ meeting' = m
    /\ openedWith' = (m # Null)
    /\ edits' = 0
    /\ formData' = EffectFormData(m, nowHour)
    /\ net' = AllStale(net) (+) One(Request("fetch", ""))
    /\ ev' = Ev("open", <<"select:leads", "select:contacts">>, Null, Null, Null)
    /\ UNCHANGED <<loading, creatingTeamsMeeting, leads, contacts>>

\* the parent passes another record while the dialog is open; the effect runs again
SetMeetingProp(m, nowHour) ==
    /\ open
    /\ m # meeting
    /\ BagCardinality(net) < MaxInFlight
    /\ meeting' = m
    /\ formData' = EffectFormData(m, nowHour)
    /\ net' = net (+) One(Request("fetch", ""))
    /\ ev' = Ev("setMeeting", <<"select:leads", "select:contacts">>, Null, Null, Null)
    /\ UNCHANGED <<open, openedWith, loading, creatingTeamsMeeting, leads, contacts, edits>>

\* Cancel, Escape or overlay click: onOpenChange(false), which the parent follows
CloseDialog ==
    /\ open
    /\ open' = FALSE
    /\ ev' = Ev("close", <<"onOpenChange(false)">>, Null, Null, Null)
    /\ UNCHANGED <<meeting, loading, creatingTeamsMeeting, leads, contacts, formData,
                   net, openedWith, edits>>

\* an onChange / onValueChange handler: setFormData(prev => ({...prev, [field]: value}))
Edit(f) ==
    /\ open
    /\ edits < MaxEdits
    /\ f # formData
    /\ formData' = f
    /\ edits' = edits + 1
    /\ ev' = Ev("edit", <<>>, Null, Null, Null)
    /\ UNCHANGED <<open, meeting, loading, creatingTeamsMeeting, leads, contacts, net,
                   openedWith>>

EditSubject     == \E v \in Subjects     : Edit([formData EXCEPT !.subject = v])
EditStartTime   == \E v \in TimeInputs   : Edit([formData EXCEPT !.start_time = v])
EditEndTime     == \E v \in TimeInputs   : Edit([formData EXCEPT !.end_time = v])
EditDescription == \E v \in Descriptions : Edit([formData EXCEPT !.description = v])
EditJoinUrl     == \E v \in TypedUrls    : Edit([formData EXCEPT !.join_url = v])
EditStatus      == \E v \in Statuses     : Edit([formData EXCEPT !.status = v])

\* the options of a Select: "none" and the ids of the rows fetched so far
SelectValue(v) == IF v = "none" THEN "" ELSE v

EditLead ==
    \E v \in {"none"} \cup {leads[i].id : i \in 1..Len(leads)} :
        Edit([formData EXCEPT !.lead_id = SelectValue(v)])

EditContact ==
    \E v \in {"none"} \cup {contacts[i].id : i \in 1..Len(contacts)} :
        Edit([formData EXCEPT !.contact_id = SelectValue(v)])

\* fetchLeadsAndContacts, after the await
FetchResponse ==
    \E q \in DOMAIN net, r \in FetchResponses :
        /\ q.kind = "fetch"
        /\ net' = net (-) One(q)
        /\ leads' = IF ~r.rejected /\ r.leadsData THEN LeadsTable ELSE leads
        /\ contacts' = IF ~r.rejected /\ r.contactsData THEN ContactsTable ELSE contacts
        /\ ev' = Ev("fetchResponse", IF r.rejected THEN <<"console.error">> ELSE <<>>,
                    Null, Null, Null)
        /\ UNCHANGED <<open, meeting, loading, creatingTeamsMeeting, formData,
                       openedWith, edits>>

\* createTeamsMeeting, up to the await (the button is disabled while a call is pending)
CreateTeamsMeeting ==
    /\ open
    /\ ~creatingTeamsMeeting
    /\ IF TeamsMissingFields(formData)
       THEN /\ ev' = Ev("createTeamsMeeting", <<"toast:Missing fields">>, Null, Null, Null)
            /\ UNCHANGED <<creatingTeamsMeeting, net>>
       ELSE /\ BagCardinality(net) < MaxInFlight
            /\ creatingTeamsMeeting' = TRUE
            /\ net' = net (+) One(Request("teams", ""))
            /\ ev' = Ev("createTeamsMeeting", <<"invoke:create-teams-meeting">>,
                        <<InvokeBody(formData, leads, contacts)>>, Null, Null)
    /\ UNCHANGED <<open, meeting, loading, leads, contacts, formData, openedWith, edits>>

\* createTeamsMeeting, after the await
TeamsResponse ==
    \E q \in DOMAIN net, r \in TeamsResponses :
        /\ q.kind = "teams"
        /\ net' = net (-) One(q)
        /\ formData' = FormAfterTeamsResponse(formData, r)
        /\ creatingTeamsMeeting' = FALSE
        /\ ev' = Ev("teamsResponse", TeamsResponseFx(r), Null, <<q>>, <<r>>)
        /\ UNCHANGED <<open, meeting, loading, leads, contacts, openedWith, edits>>

\* handleSubmit, up to the await (the submit button is disabled while loading; the
\* handler validates the fields itself, whatever the inputs' `required` attribute did)
HandleSubmit ==
    /\ open
    /\ ~loading
    /\ IF SubmitMissingFields(formData)
       THEN /\ ev' = Ev("handleSubmit", <<"toast:Missing fields">>, Null, Null, Null)
            /\ UNCHANGED <<loading, net>>
       ELSE /\ BagCardinality(net) < MaxInFlight
            /\ loading' = TRUE
            /\ net' = net (+) One(Request("save", SaveMode(meeting)))
            /\ ev' = Ev("handleSubmit", <<SaveMode(meeting)>>,
                        <<MeetingData(formData)>>, Null, Null)
    /\ UNCHANGED <<open, meeting, creatingTeamsMeeting, leads, contacts, formData,
                   openedWith, edits>>

\* handleSubmit, after the await
SaveResponse ==
    \E q \in DOMAIN net, r \in SaveResponses :
        /\ q.kind = "save"
        /\ net' = net (-) One(q)
        /\ open' = OpenAfterSaveResponse(open, r)
        /\ loading' = LoadingAfterSaveResponse(loading, r)
        /\ ev' = Ev("saveResponse", SaveResponseFx(r, q.mode), Null, <<q>>, <<r>>)
        /\ UNCHANGED <<meeting, creatingTeamsMeeting, leads, contacts, formData,
                       openedWith, edits>>

-----------------------------------------------------------------------------
(* replaceVariables (SendEmailModal) *)

\* texts are sequences of characters
PhContactName == <<"{","{","c","o","n","t","a","c","t","_","n","a","m","e","}","}">>
PhCompanyName == <<"{","{","c","o","m","p","a","n","y","_","n","a","m","e","}","}">>
PhPosition    == <<"{","{","p","o","s","i","t","i","o","n","}","}">>
PhEmail       == <<"{","{","e","m","a","i","l","}","}">>

\* does `pat` occur in `t` at index i
MatchesAt(t, pat, i) ==
    /\ i + Len(pat) - 1 <= Len(t)
    /\ \A k \in 1..Len(pat) : t[i + k - 1] = pat[k]

\* the replacement string as String.prototype.replace expands it for one match of a
\* pattern without capture groups: $$ is "$", $& the match, $` the text before the match,
\* $' the text after it; any other "$" stands for itself
RECURSIVE ExpandReplacement(_, _, _, _)
ExpandReplacement(repl, matched, before, after) ==
    IF repl = <<>> THEN <<>>
    ELSE IF repl[1] = "$" /\ Len(repl) >= 2 /\ repl[2] \in {"$", "&", "`", "'"}
         THEN (CASE repl[2] = "$" -> <<"$">>
                 [] repl[2] = "&" -> matched
                 [] repl[2] = "`" -> before
                 [] repl[2] = "'" -> after)
              \o ExpandReplacement(SubSeq(repl, 3, Len(repl)), matched, before, after)
         ELSE <<repl[1]>> \o ExpandReplacement(Tail(repl), matched, before, after)

\* `t.replace(/pat/g, repl)` for a literal pattern: one left-to-right pass over t from
\* index i on, matches do not overlap
RECURSIVE ReplaceFrom(_, _, _, _)
ReplaceFrom(t, pat, repl, i) ==
    IF i > Len(t) THEN <<>>
    ELSE IF MatchesAt(t, pat, i)
         THEN ExpandReplacement(repl, pat, SubSeq(t, 1, i - 1),
                                SubSeq(t, i + Len(pat), Len(t)))
              \o ReplaceFrom(t, pat, repl, i + Len(pat))
         ELSE <<t[i]>> \o ReplaceFrom(t, pat, repl, i + 1)

ReplaceAll(t, pat, repl) == ReplaceFrom(t, pat, repl, 1)

\* `attr || ''` on an optional text
OrEmptyText(o) == IF o = Null THEN <<>> ELSE o[1]

\* replaceVariables(text, contactData): four replaces, one after the other
replaceVariables(t, c) ==
    IF c = Null THEN t
    ELSE LET t1 == ReplaceAll(t,  PhContactName, c[1].contact_name)
             t2 == ReplaceAll(t1, PhCompanyName, OrEmptyText(c[1].company_name))
             t3 == ReplaceAll(t2, PhPosition,    OrEmptyText(c[1].position))
         IN  ReplaceAll(t3, PhEmail, OrEmptyText(c[1].email))

\* ---- inputs of the function

\* pieces of template text: plain characters, the four placeholders, an unknown
\* placeholder and the two halves of a placeholder
Fragments ==
    { <<"H","i"," ">>, PhContactName, PhCompanyName, PhPosition, PhEmail,
      <<"{","{","f","o","o","}","}">>, <<"{","{","e","m">>, <<"a","i","l","}","}">> }

RECURSIVE TextsOf(_)
TextsOf(n) ==
    IF n = 0 THEN {<<>>}
    ELSE LET shorter == TextsOf(n - 1)
         IN  shorter \cup {a \o f : a \in shorter, f \in Fragments}

Texts == TextsOf(MaxFragments)

Jane  == <<"J","a","n","e">>
Acme  == <<"A","c","m","e">>
Cto   == <<"C","T","O">>
JaneMail == <<"j","@","x">>

ContactNames == {Jane, PhEmail, <<"$","&">>, <<"{","{","e","m">>}

SubstContacts ==
    {Null} \cup
    { << [contact_name |-> n, company_name |-> co, position |-> po, email |-> em] >> :
        n \in ContactNames, co \in {Null, <<Acme>>}, po \in {Null, <<Cto>>},
        em \in {Null, <<JaneMail>>} }

\* the function applied to one input
ApplyReplaceVariables ==
    /\ result = Null
    /\ result' = <<replaceVariables(text, contactData)>>
    /\ UNCHANGED <<text, contactData>>

-----------------------------------------------------------------------------
(* SendEmailModal: data *)

\* rows of the `email_templates` table, ordered by name
TemplatesTable ==
    << [id |-> "t1", name |-> "Intro",
        subject |-> <<"H","i"," ">> \o PhContactName,
        body    |-> PhCompanyName \o <<" ">> \o PhEmail \o <<" ">> \o <<"{","{","f","o","o","}","}">>],
       [id |-> "t2", name |-> "Role",
        subject |-> PhPosition,
        body    |-> <<"o","k">>] >>

\* values of the `contact` prop the parent may supply: none, one with an email, one
\* without an email, one with an empty email
SendContacts ==
    { Null,
      << [contact_name |-> Jane, company_name |-> <<Acme>>, position |-> Null,
          email |-> <<JaneMail>>] >>,
      << [contact_name |-> Jane, company_name |-> Null, position |-> <<Cto>>,
          email |-> Null] >>,
      << [contact_name |-> Jane, company_name |-> Null, position |-> Null,
          email |-> <<<<>>>>] >> }

\* what the user may type into the subject and the message
TypedTexts == {<<>>, <<"o","k">>, <<"R","e",":">>}

\* what the template select may answer: an error, null data, or the rows
TemplatesResponses == {"error", "null", "rows"}

-----------------------------------------------------------------------------
(* SendEmailModal: pure helpers *)

\* faulty variant: only a missing contact is refused
NoEmailContactOnly(c) == c = Null

\* `!contact?.email`
NoEmail(c) == c = Null \/ c[1].email = Null \/ c[1].email[1] = <<>>

\* faulty variant: the message is not reset
BodyOnOpenKept(b) == b

\* useEffect on [open], for open = true: `setBody("")`
BodyOnOpen(b) == <<>>

\* the URLSearchParams of the mailto link: a parameter is set only for a non-empty value
MailtoParams(subj, bod) ==
    (IF subj # <<>> THEN << [key |-> "subject", value |-> subj] >> ELSE <<>>)
    \o (IF bod # <<>> THEN << [key |-> "body", value |-> bod] >> ELSE <<>>)

\* `mailto:${contact.email}?${mailtoParams}`
MailtoLink(c, subj, bod) == [to |-> c[1].email, params |-> MailtoParams(subj, bod)]

-----------------------------------------------------------------------------
(* SendEmailModal: actions *)

\* the parent opens the dialog for a contact; the effect runs: one fetch, three resets
SendOpenDialog(c) ==
    /\ ~sendOpen
    /\ sendNet < MaxInFlight
    /\ sendOpen' = TRUE
    /\ contact' = c
    /\ sendNet' = sendNet + 1
    /\ selectedTemplate' = ""
    /\ subject' = <<>>
    /\ body' = BodyOnOpen(body)
    /\ sendLeftover' = (selectedTemplate # "" \/ subject # <<>> \/ body # <<>>)
    /\ sendEv' = Ev("open", <<"select:email_templates">>, Null, Null, Null)
    /\ UNCHANGED templates

\* Cancel, Escape or overlay click: onOpenChange(false), which the parent follows
SendCloseDialog ==
    /\ sendOpen
    /\ sendOpen' = FALSE
    /\ sendEv' = Ev("close", <<"onOpenChange(false)">>, Null, Null, Null)
    /\ UNCHANGED <<contact, templates, selectedTemplate, subject, body, sendNet, sendLeftover>>

\* fetchTemplates, after the await
TemplatesResponse ==
    \E r \in TemplatesResponses :
        /\ sendNet > 0
        /\ sendNet' = sendNet - 1
        /\ templates' = CASE r = "error" -> templates
                          [] r = "null"  -> <<>>
                          [] r = "rows"  -> TemplatesTable
        /\ sendEv' = Ev("templatesResponse",
                        IF r = "error" THEN <<"console.error">> ELSE <<>>, Null, Null, <<r>>)
        /\ UNCHANGED <<sendOpen, contact, selectedTemplate, subject, body, sendLeftover>>

\* handleTemplateSelect, for "none" or one of the listed templates
HandleTemplateSelect ==
    \E templateId \in {"none"} \cup {templates[i].id : i \in 1..Len(templates)} :
        /\ sendOpen
        /\ contact # Null
        /\ selectedTemplate' = templateId
        /\ IF templateId = "none"
           THEN subject' = <<>> /\ body' = <<>>
           ELSE LET template == Find(templates, templateId)
                IN  IF template # Null
                    THEN /\ subject' = replaceVariables(template[1].subject, contact)
                         /\ body' = replaceVariables(template[1].body, contact)
                    ELSE UNCHANGED <<subject, body>>
        /\ sendEv' = Ev("handleTemplateSelect", <<>>, Null, Null, Null)
        /\ UNCHANGED <<sendOpen, contact, templates, sendNet, sendLeftover>>

\* onChange of the subject input
SetSubject ==
    \E v \in TypedTexts :
        /\ sendOpen
        /\ contact # Null
        /\ v # subject
        /\ subject' = v
        /\ sendEv' = Ev("edit", <<>>, Null, Null, Null)
        /\ UNCHANGED <<sendOpen, contact, templates, selectedTemplate, body, sendNet,
                       sendLeftover>>

\* onChange of the message textarea
SetBody ==
    \E v \in TypedTexts :
        /\ sendOpen
        /\ contact # Null
        /\ v # body
        /\ body' = v
        /\ sendEv' = Ev("edit", <<>>, Null, Null, Null)
        /\ UNCHANGED <<sendOpen, contact, templates, selectedTemplate, subject, sendNet,
                       sendLeftover>>

\* handleSendEmail (the handler checks the email itself, whatever the button's state)
HandleSendEmail ==
    /\ sendOpen
    /\ contact # Null
    /\ IF NoEmail(contact)
       THEN /\ sendEv' = Ev("handleSendEmail", <<"toast:No email address">>, Null, Null, Null)
            /\ UNCHANGED sendOpen
       ELSE /\ sendEv' = Ev("handleSendEmail",
                            <<"window.open", "toast:Email Client Opened", "onOpenChange(false)">>,
                            <<MailtoLink(contact, subject, body)>>, Null, Null)
            /\ sendOpen' = FALSE
    /\ UNCHANGED <<contact, templates, selectedTemplate, subject, body, sendNet, sendLeftover>>

-----------------------------------------------------------------------------
(* Settings: data and pure helpers *)

\* menuSections
menuSections ==
    << [title |-> "Personal Settings",
        items |-> << [id |-> "profile",           label |-> "Profile Management",       adminOnly |-> FALSE],
                     [id |-> "password-security", label |-> "Password & Security",      adminOnly |-> FALSE],
                     [id |-> "notifications",     label |-> "Notification Preferences", adminOnly |-> FALSE],
                     [id |-> "display",           label |-> "Display Preferences",      adminOnly |-> FALSE] >>],
       [title |-> "User Management",
        items |-> << [id |-> "user-directory",  label |-> "User Directory",      adminOnly |-> TRUE],
                     [id |-> "role-management", label |-> "Role Management",     adminOnly |-> TRUE],
                     [id |-> "page-access",     label |-> "Page Access Control", adminOnly |-> TRUE] >>],
       [title |-> "System Config",
        items |-> << [id |-> "pipeline",        label |-> "Pipeline/Stage Management", adminOnly |-> TRUE],
                     [id |-> "email-templates", label |-> "Email Templates",           adminOnly |-> TRUE],
                     [id |-> "backup",          label |-> "Data Import/Export",        adminOnly |-> TRUE],
                     [id |-> "integrations",    label |-> "Integration Settings",      adminOnly |-> TRUE] >>],
       [title |-> "Security",
        items |-> << [id |-> "audit-logs",         label |-> "Audit Logs Viewer",  adminOnly |-> TRUE],
                     [id |-> "session-management", label |-> "Session Management", adminOnly |-> FALSE] >>] >>

\* what useUserRole may report: not resolved yet, the administrator role, other roles
UserRoles == {"", "admin", "manager", "user", "sales", "Admin"}

\* `userRole === "admin"`
IsAdmin(role) == role = "admin"

\* faulty variant: nothing is filtered out
VisibleItemsUnfiltered(section, isAdmin) == section.items

\* `section.items.filter((item) => !item.adminOnly || isAdmin)`
VisibleItems(section, isAdmin) ==
    LET Keep(item) == ~item.adminOnly \/ isAdmin
    IN  SelectSeq(section.items, Keep)

\* the sidebar: a section is rendered with its visible items, or not at all when none is
RenderedMenu(isAdmin) ==
    LET Rendered(section) == [title |-> section.title, items |-> VisibleItems(section, isAdmin)]
        Shown(r) == Len(r.items) # 0
    IN  SelectSeq([i \in 1..Len(menuSections) |-> Rendered(menuSections[i])], Shown)

\* the ids of the buttons of the sidebar
RenderedIds(isAdmin) ==
    LET menu == RenderedMenu(isAdmin)
    IN  UNION {{menu[i].items[k].id : k \in 1..Len(menu[i].items)} : i \in 1..Len(menu)}

\* renderContent: the panel of the active key
renderContent(tab) ==
    CASE tab = "profile"            -> "ProfileSettings"
      [] tab = "password-security"  -> "SecuritySettings"
      [] tab = "notifications"      -> "NotificationSettings"
      [] tab = "display"            -> "DisplaySettings"
      [] tab = "user-directory"     -> "UserManagement"
      [] tab = "role-management"    -> "UserManagement"
      [] tab = "page-access"        -> "PageAccessSettings"
      [] tab = "pipeline"           -> "PipelineSettings"
      [] tab = "email-templates"    -> "EmailTemplatesSettings"
      [] tab = "backup"             -> "BackupRestoreSettings"
      [] tab = "integrations"       -> "IntegrationSettings"
      [] tab = "audit-logs"         -> "AuditLogsSettings"
      [] tab = "session-management" -> "SessionManagementSettings"
      [] OTHER                      -> "ProfileSettings"

\* getActiveLabel: the label of the active key, by linear search
getActiveLabel(tab) ==
    LET hits == {<<i, k>> \in (1..Len(menuSections)) \X (1..4) :
                    k <= Len(menuSections[i].items) /\ menuSections[i].items[k].id = tab}
    IN  IF hits = {} THEN "Settings"
        ELSE LET h == CHOOSE h \in hits : TRUE IN menuSections[h[1]].items[h[2]].label

-----------------------------------------------------------------------------
(* Settings: actions *)

SettingsEv(op, item) == [op |-> op, item |-> item]

\* a click on a button of the sidebar: `setActiveTab(item.id)`
SelectTab ==
    \E id \in RenderedIds(IsAdmin(userRole)) :
        /\ activeTab' = id
        /\ settingsEv' = SettingsEv("select", id)
        /\ UNCHANGED userRole

\* useUserRole reports another role (it resolves, or the role is changed)
SetUserRole ==
    \E role \in UserRoles :
        /\ role # userRole
        /\ userRole' = role
        /\ settingsEv' = SettingsEv("role", "")
        /\ UNCHANGED activeTab

-----------------------------------------------------------------------------
(* BulkActionsBar: rendering and actions *)

\* what the bar shows for no selection: `return null`
Nothing == [label |-> <<>>, buttons |-> <<>>]

\* faulty variant: the bar stays hidden for a single selected item
BulkActionsBarHiddenForOne(count) ==
    IF count <= 1 THEN Nothing
    ELSE [label   |-> <<count, "items", "selected">>,
          buttons |-> <<"Export", "Delete", "Cancel">>]

\* the render of BulkActionsBar for a selection count
BulkActionsBar(count) ==
    IF count = 0 THEN Nothing
    ELSE [label   |-> <<count, IF count = 1 THEN "item" ELSE "items", "selected">>,
          buttons |-> <<"Export", "Delete", "Cancel">>]

\* the onClick prop of each button
OnClick(button) ==
    CASE button = "Export" -> "onExport"
      [] button = "Delete" -> "onDelete"
      [] button = "Cancel" -> "onClearSelection"

BulkEv(op, fx) == [op |-> op, fx |-> fx]

\* a click on a rendered button runs its onClick and nothing else
Click(button) ==
    /\ \E i \in 1..Len(BulkActionsBar(selectedCount).buttons) :
            BulkActionsBar(selectedCount).buttons[i] = button
    /\ bulkEv' = BulkEv("click", <<OnClick(button)>>)
    /\ UNCHANGED selectedCount

ClickExport == Click("Export")

ClickDelete == Click("Delete")

ClickCancel == Click("Cancel")

\* the parent renders the bar again with another selection count
SetSelectedCount ==
    \E n \in 0..MaxSelected :
        /\ n # selectedCount
        /\ selectedCount' = n
        /\ bulkEv' = BulkEv("props", <<>>)

-----------------------------------------------------------------------------
(* Initial states and specifications *)

\* MeetingModal mounted with open = false
MeetingInit ==
    /\ open = FALSE
    /\ meeting = Null
    /\ loading = FALSE
    /\ creatingTeamsMeeting = FALSE
    /\ leads = <<>>
    /\ contacts = <<>>
    /\ formData = InitialFormData
    /\ net = EmptyBag
    /\ openedWith = FALSE
    /\ edits = 0
    /\ ev = NoEv

\* SendEmailModal mounted with open = false
SendInit ==
    /\ sendOpen = FALSE
    /\ contact = Null
    /\ templates = <<>>
    /\ selectedTemplate = ""
    /\ subject = <<>>
    /\ body = <<>>
    /\ sendNet = 0
    /\ sendLeftover = FALSE
    /\ sendEv = NoEv

\* no input taken yet
SubstIdle ==
    /\ text = <<>>
    /\ contactData = Null
    /\ result = Null

\* Settings mounted: the default key, whatever role the hook reports first
SettingsInit ==
    /\ activeTab = "profile"
    /\ userRole \in UserRoles
    /\ settingsEv = SettingsEv("init", "")

\* Settings not mounted
SettingsIdle ==
    /\ activeTab = "profile"
    /\ userRole = ""
    /\ settingsEv = SettingsEv("init", "")

\* BulkActionsBar rendered for an empty selection
BulkIdle ==
    /\ selectedCount = 0
    /\ bulkEv = BulkEv("init", <<>>)

InitMeeting == MeetingInit /\ SendInit /\ SubstIdle /\ SettingsIdle /\ BulkIdle

\* SendEmailModal mounted with open = false
InitEmail == SendInit /\ MeetingInit /\ SubstIdle /\ SettingsIdle /\ BulkIdle

\* replaceVariables about to be applied to any of the inputs
InitSubst ==
    /\ text \in Texts
    /\ contactData \in SubstContacts
    /\ result = Null
    /\ MeetingInit
    /\ SendInit
    /\ SettingsIdle
    /\ BulkIdle

NextMeeting ==
    \/ (\E m \in MeetingProps, h \in NowHours : OpenDialog(m, h)) /\ UNCHANGED <<sendVars, substVars, settingsVars, bulkVars>>
    \/ (\E m \in MeetingProps, h \in NowHours : SetMeetingProp(m, h)) /\ UNCHANGED <<sendVars, substVars, settingsVars, bulkVars>>
    \/ CloseDialog /\ UNCHANGED <<sendVars, substVars, settingsVars, bulkVars>>
    \/ EditSubject /\ UNCHANGED <<sendVars, substVars, settingsVars, bulkVars>>
    \/ EditStartTime /\ UNCHANGED <<sendVars, substVars, settingsVars, bulkVars>>
    \/ EditEndTime /\ UNCHANGED <<sendVars, substVars, settingsVars, bulkVars>>
    \/ EditDescription /\ UNCHANGED <<sendVars, substVars, settingsVars, bulkVars>>
    \/ EditJoinUrl /\ UNCHANGED <<sendVars, substVars, settingsVars, bulkVars>>
    \/ EditStatus /\ UNCHANGED <<sendVars, substVars, settingsVars, bulkVars>>
    \/ EditLead /\ UNCHANGED <<sendVars, substVars, settingsVars, bulkVars>>
    \/ EditContact /\ UNCHANGED <<sendVars, substVars, settingsVars, bulkVars>>
    \/ FetchResponse /\ UNCHANGED <<sendVars, substVars, settingsVars, bulkVars>>
    \/ CreateTeamsMeeting /\ UNCHANGED <<sendVars, substVars, settingsVars, bulkVars>>
    \/ TeamsResponse /\ UNCHANGED <<sendVars, substVars, settingsVars, bulkVars>>
    \/ HandleSubmit /\ UNCHANGED <<sendVars, substVars, settingsVars, bulkVars>>
    \/ SaveResponse /\ UNCHANGED <<sendVars, substVars, settingsVars, bulkVars>>

SpecMeeting == InitMeeting /\ [][NextMeeting]_vars

NextEmail ==
    \/ (\E c \in SendContacts : SendOpenDialog(c)) /\ UNCHANGED <<meetingVars, substVars, settingsVars, bulkVars>>
    \/ SendCloseDialog /\ UNCHANGED <<meetingVars, substVars, settingsVars, bulkVars>>
    \/ TemplatesResponse /\ UNCHANGED <<meetingVars, substVars, settingsVars, bulkVars>>
    \/ HandleTemplateSelect /\ UNCHANGED <<meetingVars, substVars, settingsVars, bulkVars>>
    \/ SetSubject /\ UNCHANGED <<meetingVars, substVars, settingsVars, bulkVars>>
    \/ SetBody /\ UNCHANGED <<meetingVars, substVars, settingsVars, bulkVars>>
    \/ HandleSendEmail /\ UNCHANGED <<meetingVars, substVars, settingsVars, bulkVars>>

SpecEmail == InitEmail /\ [][NextEmail]_vars

NextSubst == ApplyReplaceVariables /\ UNCHANGED <<meetingVars, sendVars, settingsVars, bulkVars>>

SpecSubst == InitSubst /\ [][NextSubst]_vars

InitSettings == SettingsInit /\ MeetingInit /\ SendInit /\ SubstIdle /\ BulkIdle

NextSettings ==
    \/ SelectTab /\ UNCHANGED <<meetingVars, sendVars, substVars, bulkVars>>
    \/ SetUserRole /\ UNCHANGED <<meetingVars, sendVars, substVars, bulkVars>>

SpecSettings == InitSettings /\ [][NextSettings]_vars

\* BulkActionsBar mounted by a parent list with some selection
BulkInit ==
    /\ selectedCount \in 0..MaxSelected
    /\ bulkEv = BulkEv("init", <<>>)

InitBulk == BulkInit /\ MeetingInit /\ SendInit /\ SubstIdle /\ SettingsIdle

NextBulk ==
    \/ ClickExport /\ UNCHANGED <<meetingVars, sendVars, substVars, settingsVars>>
    \/ ClickDelete /\ UNCHANGED <<meetingVars, sendVars, substVars, settingsVars>>
    \/ ClickCancel /\ UNCHANGED <<meetingVars, sendVars, substVars, settingsVars>>
    \/ SetSelectedCount /\ UNCHANGED <<meetingVars, sendVars, substVars, settingsVars>>

SpecBulk == InitBulk /\ [][NextBulk]_vars

-----------------------------------------------------------------------------
(* MeetingModal: properties *)

\* subject, start time or end time is blank in a form state
AnyRequiredBlank(f) == f.subject = "" \/ f.start_time = <<>> \/ f.end_time = <<>>

SuccessToasts == {"toast:Meeting updated successfully", "toast:Meeting created successfully"}

Writes(fx) == Count(fx, "insert") + Count(fx, "update")

PendingOf(b, kind) ==
    LET S == {r \in DOMAIN b : r.kind = kind}
        RECURSIVE Sum(_)
        Sum(T) == IF T = {} THEN 0
                  ELSE LET x == CHOOSE x \in T : TRUE IN b[x] + Sum(T \ {x})
    IN  Sum(S)

\* C1: whenever handleSubmit runs with subject, start_time or end_time blank, it issues
\* no insert and no update on the meetings table, shows the validation notification,
\* leaves every form field unchanged and leaves the dialog open.
C1_BlankSubmitWritesNothing ==
    [][ (ev'.op = "handleSubmit" /\ AnyRequiredBlank(formData)) =>
            /\ Writes(ev'.fx) = 0
            /\ ev'.fx = <<"toast:Missing fields">>
            /\ net' = net
            /\ formData' = formData
            /\ open /\ open' ]_vars

\* C1 witness: handleSubmit has run in Edit mode with only the start time blank
C1_Witness ==
    /\ ev.op = "handleSubmit"
    /\ formData.subject # "" /\ formData.start_time = <<>> /\ formData.end_time # <<>>
    /\ ev.fx = <<"toast:Missing fields">>
    /\ open

\* C2 (as claimed): every submission that passes validation performs exactly one insert
\* or exactly one update, and it is an update iff a meeting was supplied when the dialog
\* opened, even if the supplied meeting changed while the dialog was open.
C2_ModeFixedAtOpen ==
    [][ (ev'.op = "handleSubmit" /\ ~AnyRequiredBlank(formData)) =>
            /\ Writes(ev'.fx) = 1
            /\ (Count(ev'.fx, "update") = 1) <=> openedWith ]_vars

\* C2 (amended): every submission that passes validation performs exactly one insert or
\* exactly one update, and it is an update iff the `meeting` prop is non-null at the
\* moment of submission; the pending request carries that same mode.
C2_ModeFollowsMeetingProp ==
    [][ (ev'.op = "handleSubmit" /\ ~AnyRequiredBlank(formData)) =>
            /\ Writes(ev'.fx) = 1
            /\ Len(ev'.fx) = 1
            /\ (Count(ev'.fx, "update") = 1) <=> (meeting # Null)
            /\ PendingOf(net', "save") = PendingOf(net, "save") + 1 ]_vars

\* C2 witness: a submission issued an update in a session that was opened without a meeting
C2_Witness ==
    /\ ev.op = "handleSubmit"
    /\ ev.fx = <<"update">>
    /\ ~openedWith

C4_OneInvokeOrNone ==
    [][ ev'.op = "createTeamsMeeting" =>
            IF AnyRequiredBlank(formData)
            THEN /\ ev'.fx = <<"toast:Missing fields">>
                 /\ net' = net
            ELSE /\ ev'.fx = <<"invoke:create-teams-meeting">>
                 /\ PendingOf(net', "teams") = PendingOf(net, "teams") + 1
                 /\ BagCardinality(net') = BagCardinality(net) + 1 ]_vars

\* C4 witness: createTeamsMeeting has issued its call from a complete form
C4_Witness ==
    /\ ev.op = "createTeamsMeeting"
    /\ ev.fx = <<"invoke:create-teams-meeting">>
    /\ PendingOf(net, "teams") = 1

\* C5: a successful response carrying a join URL overwrites join_url with that URL,
\* whatever it held; a failed response shows an error and leaves join_url as it was.
C5_JoinUrlAfterResponse ==
    [][ ev'.op = "teamsResponse" =>
            LET r == ev'.resp[1] IN
            /\ (~r.error /\ r.joinUrl # "") => formData'.join_url = r.joinUrl
            /\ r.error => /\ formData'.join_url = formData.join_url
                           /\ Count(ev'.fx, "toast:Error") = 1 ]_vars

\* C5 witness: a generated link has replaced the link of the record being edited
C5_Witness ==
    /\ ev.op = "teamsResponse"
    /\ ~ev.resp[1].error
    /\ meeting # Null /\ meeting[1].join_url # Null
    /\ edits = 0
    /\ formData.join_url \in RemoteUrls

\* the attendees the selection stands for: the selected lead / contact rows of the
\* tables that have a non-empty email
ExpectedAttendees(f) ==
    {[email |-> LeadsTable[i].email, name |-> LeadsTable[i].lead_name] :
        i \in {j \in 1..Len(LeadsTable) :
                 LeadsTable[j].id = f.lead_id /\ LeadsTable[j].email # ""}}
    \cup
    {[email |-> ContactsTable[i].email, name |-> ContactsTable[i].contact_name] :
        i \in {j \in 1..Len(ContactsTable) :
                 ContactsTable[j].id = f.contact_id /\ ContactsTable[j].email # ""}}

\* C6 (as claimed): the attendees sent in the remote call are exactly the selected lead
\* and the selected contact that have a non-empty email, in every state in which the
\* action can be invoked.
C6_AttendeesMatchSelection ==
    [][ (ev'.op = "createTeamsMeeting" /\ ev'.call # Null) =>
            Range(ev'.call[1].attendees) = ExpectedAttendees(formData) ]_vars

\* C7 (as claimed): a conferencing-link or save response whose request was issued before
\* the dialog was closed and opened again writes no form field of the new session, does
\* not invoke onSuccess and does not close the new session.
C7_LateResponseNotActedOn ==
    [][ (ev'.op \in {"teamsResponse", "saveResponse"} /\ ev'.req[1].stale) =>
            /\ formData' = formData
            /\ open' = open
            /\ Count(ev'.fx, "onSuccess") = 0 ]_vars

-----------------------------------------------------------------------------
(* replaceVariables and SendEmailModal: properties *)

\* the attribute a placeholder stands for ('' if absent)
PlaceholderValues(c) ==
    << <<PhContactName, c.contact_name>>,
       <<PhCompanyName, OrEmptyText(c.company_name)>>,
       <<PhPosition,    OrEmptyText(c.position)>>,
       <<PhEmail,       OrEmptyText(c.email)>> >>

\* one simultaneous substitution: a single pass over the template text in which each
\* occurrence of a placeholder becomes the attribute, verbatim, and all else is copied
RECURSIVE SimultaneousFrom(_, _, _)
SimultaneousFrom(t, c, i) ==
    IF i > Len(t) THEN <<>>
    ELSE LET pv   == PlaceholderValues(c)
             hits == {k \in 1..Len(pv) : MatchesAt(t, pv[k][1], i)}
         IN  IF hits = {} THEN <<t[i]>> \o SimultaneousFrom(t, c, i + 1)
             ELSE LET k == CHOOSE k \in hits : TRUE
                  IN  pv[k][2] \o SimultaneousFrom(t, c, i + Len(pv[k][1]))

\* C8 (as claimed): for every contact and every template text, the result of
\* replaceVariables is the text with every occurrence of the four placeholders replaced
\* by the contact's attribute and everything else untouched, i.e. the result of one
\* simultaneous substitution.
C8_SimultaneousSubstitution ==
    (result # Null /\ contactData # Null) =>
        result[1] = SimultaneousFrom(text, contactData[1], 1)

\* C9: when the contact has no email or an empty one, handleSendEmail opens no window,
\* issues no network call, shows a notification and leaves the dialog open with subject
\* and body unchanged.
C9_NoEmailNoSend ==
    [][ (sendEv'.op = "handleSendEmail"
            /\ (contact = Null \/ contact[1].email = Null \/ contact[1].email = <<<<>>>>)) =>
            /\ sendEv'.fx = <<"toast:No email address">>
            /\ sendEv'.call = Null
            /\ sendNet' = sendNet
            /\ sendOpen /\ sendOpen'
            /\ subject' = subject
            /\ body' = body ]_vars

\* C9 witness: handleSendEmail has run for a contact without an email on a filled form
C9_Witness ==
    /\ sendEv.op = "handleSendEmail"
    /\ contact # Null /\ contact[1].email = Null
    /\ sendEv.fx = <<"toast:No email address">>
    /\ sendOpen
    /\ subject # <<>> /\ body # <<>>

\* C10: each transition of the dialog from closed to open leaves the template selection,
\* the subject and the body empty and issues one template-list fetch, whatever an earlier
\* session left behind.
C10_OpenResets ==
    [][ (~sendOpen /\ sendOpen') =>
            /\ selectedTemplate' = ""
            /\ subject' = <<>>
            /\ body' = <<>>
            /\ Count(sendEv'.fx, "select:email_templates") = 1
            /\ sendNet' = sendNet + 1 ]_vars

\* C10 witness: the dialog has just been opened again after a session that left a
\* selection, a subject or a body behind
C10_Witness ==
    /\ sendOpen
    /\ sendEv.op = "open"
    /\ sendLeftover
    /\ selectedTemplate = "" /\ subject = <<>> /\ body = <<>>

-----------------------------------------------------------------------------
(* Settings: properties *)

\* every item of the menu table, as a set
AllMenuItems ==
    UNION {{menuSections[i].items[k] : k \in 1..Len(menuSections[i].items)} :
              i \in 1..Len(menuSections)}

AdminOnlyIds == {item.id : item \in {it \in AllMenuItems : it.adminOnly}}

\* the titles of the sections in which a non-administrator has something to see
OpenSectionTitles ==
    {menuSections[i].title : i \in {j \in 1..Len(menuSections) :
        \E k \in 1..Len(menuSections[j].items) : ~menuSections[j].items[k].adminOnly}}

\* C11: in every reachable state, when the role is not 'admin' the rendered
\* menu holds no item flagged adminOnly (the item is absent, not disabled) and
\* every item without the flag; a section left with no item is not rendered;
\* and with the default active key 'profile' the profile panel is rendered.
C11_MenuFiltering ==
    LET menu == RenderedMenu(IsAdmin(userRole))
    IN  /\ userRole # "admin" =>
              /\ RenderedIds(IsAdmin(userRole)) \cap AdminOnlyIds = {}
              /\ RenderedIds(IsAdmin(userRole)) =
                     {item.id : item \in AllMenuItems} \ AdminOnlyIds
              /\ {menu[i].title : i \in 1..Len(menu)} = OpenSectionTitles
        /\ \A i \in 1..Len(menu) : Len(menu[i].items) > 0
        /\ activeTab = "profile" => renderContent(activeTab) = "ProfileSettings"

\* a non-administrator has clicked an item of a menu reduced to two sections
C11_Witness ==
    LET menu == RenderedMenu(IsAdmin(userRole))
    IN  /\ userRole = "user"
        /\ settingsEv.op = "select"
        /\ activeTab = "session-management"
        /\ [i \in 1..Len(menu) |-> menu[i].title] = <<"Personal Settings", "Security">>
        /\ Len(menu[2].items) = 1

-----------------------------------------------------------------------------
(* BulkActionsBar: properties *)

Callbacks == {"onExport", "onDelete", "onClearSelection"}

\* the bar shows nothing for a count of zero and the three actions otherwise
BarMatchesCount(count) ==
    LET shown == Range(BulkActionsBar(count).buttons)
    IN  /\ count = 0 => shown = {} /\ BulkActionsBar(count).label = <<>>
        /\ count > 0 => shown = {"Export", "Delete", "Cancel"}

\* C12: for every non-negative selectedCount the bar renders nothing when the
\* count is zero and the Export, Delete and Cancel actions when it is
\* positive; each click invokes exactly one of onExport, onDelete and
\* onClearSelection, and the component changes no state and does no I/O.
C12_BarRendersAndDelegates ==
    [][ /\ BarMatchesCount(selectedCount) /\ BarMatchesCount(selectedCount')
        /\ bulkEv'.op = "click" =>
              /\ selectedCount > 0
              /\ Len(bulkEv'.fx) = 1
              /\ bulkEv'.fx[1] \in Callbacks
              /\ selectedCount' = selectedCount
              /\ UNCHANGED <<meetingVars, sendVars, substVars, settingsVars>> ]_vars

\* Delete has been clicked on the bar shown for a single selected item
C12_Witness ==
    /\ selectedCount = 1
    /\ bulkEv = BulkEv("click", <<"onDelete">>)
    /\ BulkActionsBar(selectedCount).label = <<1, "item", "selected">>

-----------------------------------------------------------------------------
(* MeetingModal: frame condition of the link generation, in-flight exclusion *)

\* the fields of the form other than the link
OtherFields == {"subject", "description", "start_time", "end_time",
                "lead_id", "contact_id", "status"}

\* C13: when a conferencing-link response is applied, join_url is the only
\* form field that changes: subject, description, start_time, end_time,
\* lead_id, contact_id and status keep the values they have at that moment,
\* edits made while the call was in flight included.
C13_OnlyJoinUrlChanges ==
    [][ ev'.op = "teamsResponse" =>
            /\ DOMAIN formData' = DOMAIN formData
            /\ \A k \in OtherFields : formData'[k] = formData[k] ]_vars

\* a link has arrived for a form whose subject was cleared while the call was
\* in flight (the call is only issued for a non-blank subject)
C13_Witness ==
    /\ ev.op = "teamsResponse"
    /\ ~ev.resp[1].error
    /\ ~ev.req[1].stale
    /\ edits = 1
    /\ formData.subject = ""
    /\ formData.join_url = ev.resp[1].joinUrl
    /\ formData.join_url \in RemoteUrls

-----------------------------------------------------------------------------
(* Settings: access to the panels *)

\* the panels behind the admin-only keys
AdminPanels == {renderContent(id) : id \in AdminOnlyIds}

\* C14: in every reachable state, after any sequence of menu selections and
\* role changes, a caller whose role is not 'admin' is never shown the content
\* panel of an admin-only key, and the active key is one that is visible in
\* the caller's menu.
C14_NoAdminPanelForNonAdmin ==
    /\ userRole # "admin" => renderContent(activeTab) \notin AdminPanels
    /\ activeTab \in RenderedIds(IsAdmin(userRole))

\* C15: at most one insert/update call and at most one 'create-teams-meeting'
\* call is outstanding at any time, close and re-open of the dialog included,
\* and each flag is false again once its call has completed, whether it
\* succeeded or failed, so that the action can be taken again.
C15_InFlightExclusion ==
    [][ /\ PendingOf(net, "save") <= 1 /\ PendingOf(net', "save") <= 1
        /\ PendingOf(net, "teams") <= 1 /\ PendingOf(net', "teams") <= 1
        /\ ev'.op = "saveResponse" => ~loading' /\ PendingOf(net', "save") = 0
        /\ ev'.op = "teamsResponse" =>
               ~creatingTeamsMeeting' /\ PendingOf(net', "teams") = 0 ]_vars

\* a save issued before the dialog was closed and opened again has failed:
\* the dialog is open, the form complete and the submit control enabled
C15_Witness ==
    /\ ev.op = "saveResponse"
    /\ ev.resp[1].error
    /\ ev.req[1].stale
    /\ open
    /\ ~loading
    /\ ~AnyRequiredBlank(formData)
    /\ PendingOf(net, "teams") = 1 /\ creatingTeamsMeeting

====
